---- MODULE Spec2Model ----
(***************************************************************************)
(* A model of hystrix-py's CommandMetrics (src/hystrix/command_metrics.py) *)
(* and of the collaborators it calls: the event notifier, the clock and    *)
(* the rolling counter.  Nothing in CommandMetrics is locked, so the       *)
(* threads calling health_counts() and the threads calling mark_* are      *)
(* modelled one statement (one shared-memory access) per step, and every   *)
(* interleaving the interpreter can produce is a behaviour.                *)
(***************************************************************************)
EXTENDS Integers, Sequences, FiniteSets, TLC

(***************************************************************************)
(* Bounds of the model.                                                    *)
(***************************************************************************)
\* number of threads that call health_counts()
NumCallers == 2
\* number of threads that report outcomes (mark_* calls and direct increments)
NumReporters == 2
\* the clock runs from 0 to MaxTime milliseconds
MaxTime == 2
\* at most MaxMarks outcome reports (mark_* calls and direct increments)
MaxMarks == 2
\* the configured metrics_health_snapshot_interval_in_milliseconds
SnapshotInterval == 2
\* the rolling window: BucketCount buckets of BucketSizeMs milliseconds
BucketSizeMs == 1
BucketCount == 2
\* largest total_count of the pure-function check of the error percentage
MaxTotal == 50
\* at most MaxWithCalls calls of Setter.with_* methods
MaxWithCalls == 2
\* at most MaxDefinitions class definitions reach CommandMetricsMetaclass
MaxDefinitions == 3
\* at most MaxRequests calls of the breaker's allow_request()
MaxRequests == 3
\* at most MaxCalls calls of health_counts() while outcomes are being reported
MaxCalls == 1

(***************************************************************************)
(* IEEE-754 binary64 arithmetic, as far as line 162 needs it:              *)
(*     int(error_count / total_count * 100)                                *)
(* Under Python 3 "/" is true division: the quotient is rounded to a       *)
(* double, the product with 100 is rounded to a double again, and int()    *)
(* truncates.  (Under Python 2 "/" on two integers is floor division, see  *)
(* ErrorPercentage.)  A significand is a sequence of bits, least           *)
(* significant first, because TLC's integers are 32 bits wide.             *)
(***************************************************************************)
MantissaBits == 53

RECURSIVE Pow2(_)
Pow2(n) == IF n = 0 THEN 1 ELSE 2 * Pow2(n - 1)

Reverse(s) == [i \in 1..Len(s) |-> s[Len(s) + 1 - i]]

Zeros(n) == [i \in 1..n |-> 0]

\* bits (least significant first) without the leading (most significant) zeros
RECURSIVE Strip(_)
Strip(b) == IF Len(b) > 0 /\ b[Len(b)] = 0 THEN Strip(SubSeq(b, 1, Len(b) - 1)) ELSE b

\* a + b + carry on bit sequences, least significant first
RECURSIVE BitsAddC(_, _, _)
BitsAddC(a, b, c) ==
    IF Len(a) = 0 /\ Len(b) = 0 THEN (IF c = 1 THEN <<1>> ELSE <<>>)
    ELSE LET x == IF Len(a) > 0 THEN a[1] ELSE 0
             y == IF Len(b) > 0 THEN b[1] ELSE 0
             s == x + y + c
         IN  <<s % 2>> \o BitsAddC(IF Len(a) > 0 THEN Tail(a) ELSE a,
                                   IF Len(b) > 0 THEN Tail(b) ELSE b,
                                   s \div 2)

BitsAdd(a, b) == BitsAddC(a, b, 0)

\* the value of a short bit sequence (least significant first)
RECURSIVE BitsValue(_)
BitsValue(b) == IF Len(b) = 0 THEN 0 ELSE b[1] + 2 * BitsValue(Tail(b))

\* Round a positive integer, given as bits, to MantissaBits significant bits,
\* ties to even.  The result is [m |-> the 53 bits, sh |-> the number of low
\* bits dropped]: the integer rounds to m * 2^sh.
RoundBits(b0) ==
    LET b == Strip(b0)
        n == Len(b)
    IN  IF n <= MantissaBits THEN [m |-> Zeros(MantissaBits - n) \o b, sh |-> n - MantissaBits]
        ELSE LET drop  == n - MantissaBits
                 kept  == SubSeq(b, drop + 1, n)
                 guard == b[drop]
                 sticky == \E i \in 1..(drop - 1) : b[i] = 1
                 up    == guard = 1 /\ (sticky \/ kept[1] = 1)
                 r     == IF up THEN BitsAdd(kept, <<1>>) ELSE kept
             IN  IF Len(r) > MantissaBits
                 THEN [m |-> SubSeq(r, 2, Len(r)), sh |-> drop + 1]
                 ELSE [m |-> r, sh |-> drop]

\* The bits of the quotient n / d in [1, 2), most significant first: `left`
\* more bits after the ones in `acc`, then the remainder.
RECURSIVE DivBits(_, _, _, _)
DivBits(rem, d, left, acc) ==
    IF left = 0 THEN [bits |-> acc, rem |-> rem]
    ELSE LET r2  == 2 * rem
             bit == IF r2 >= d THEN 1 ELSE 0
         IN  DivBits(r2 - bit * d, d, left - 1, Append(acc, bit))

\* the least s >= 0 with a * 2^s >= b   (a, b > 0)
RECURSIVE ShiftUp(_, _)
ShiftUp(a, b) == IF a >= b THEN 0 ELSE 1 + ShiftUp(2 * a, b)

\* A double is [m |-> 53 bits, least significant first, the top one 1;
\* ex |-> the binary exponent of the lowest bit]: its value is m * 2^ex.
\* FloatDiv(a, b) is the double nearest a / b for integers 0 < a <= b.
FloatDiv(a, b) ==
    LET s    == ShiftUp(a, b)
        q    == DivBits(a * Pow2(s) - b, b, MantissaBits - 1, <<1>>)
        lsb  == q.bits[MantissaBits]
        up   == 2 * q.rem > b \/ (2 * q.rem = b /\ lsb = 1)
        m0   == Reverse(q.bits)
        m1   == IF up THEN BitsAdd(m0, <<1>>) ELSE m0
    IN  IF Len(m1) > MantissaBits
        THEN [m |-> SubSeq(m1, 2, Len(m1)), ex |-> 1 - s - MantissaBits + 1]
        ELSE [m |-> m1, ex |-> 1 - s - MantissaBits]

\* the double nearest f * 100   (100 = 64 + 32 + 4)
FloatMul100(f) ==
    LET p == BitsAdd(BitsAdd(Zeros(6) \o f.m, Zeros(5) \o f.m), Zeros(2) \o f.m)
        r == RoundBits(p)
    IN  [m |-> r.m, ex |-> f.ex + r.sh]

\* int(f) for a double f >= 0 below 2^31: truncation toward zero
IntTrunc(f) ==
    IF f.ex >= 0 THEN BitsValue(Zeros(f.ex) \o f.m)
    ELSE IF -f.ex >= Len(f.m) THEN 0
    ELSE BitsValue(SubSeq(f.m, 1 - f.ex, Len(f.m)))


(***************************************************************************)
(* The program state.                                                      *)
(***************************************************************************)
VARIABLES
    python,                       \* the major version of the interpreter that runs the program
    properties,                   \* self.properties: the CommandProperties object
    clock,                        \* ActualTime: the current time in milliseconds
    buckets,                      \* self.counter: the rolling window's buckets, newest last
    cumulative,                   \* self.counter: all-time total per event kind
    events,                       \* event_notifier: mark_event calls received, per event type
    propagated,                   \* mark_* calls that raised to their caller, per event type
    reporting,                    \* per reporting thread: the call it is in (where it is,
                                  \* the kind it reports, the start of the bucket that
                                  \* counter.increment has taken)
    health_counts_snapshot,       \* self.health_counts_snapshot
    last_health_counts_snapshot,  \* self.last_health_counts_snapshot (AtomicLong)
    pc,                           \* per caller: the line of health_counts() it is about to run
    last_time,                    \* per caller: local last_time (line 144)
    current_time,                 \* per caller: local current_time (line 145)
    won,                          \* per caller: its compare_and_set succeeded (line 147)
    sums,                         \* per caller: the rolling sums it has read (lines 151-156)
    result,                       \* per caller: what its last call returned (line 166)
    claim_log,                    \* history: the marker times of the successful claims, in order
    circuit,                      \* the circuit breaker's state and circuit_opened_at
    ar,                           \* per caller: its allow_request() call (position, now,
                                  \* the state and health it read, the result, and
                                  \* whether the state it read was CLOSED by a trial)
    permits,                      \* history: the trial permits granted since the breaker
                                  \* last entered OPEN
    history,                      \* history: what the properties of the rolling window and
                                  \* of the publication order read (see History)
    setters,                      \* the Setter objects, by identity: their fields
    returned,                     \* the last Setter.with_* call (the object it was made on
                                  \* and the object it returned) or the last class
                                  \* definition (its name, its key and the class it yielded)
    built,                        \* how the construction of CommandProperties and of
                                  \* CommandMetrics from it ended (None: not attempted)
    __instances__,                \* CommandMetricsMetaclass.__instances__: key -> class
    classes,                      \* the class objects type.__new__ has created, by identity
    defining                      \* per thread: the class definition it is making (the line
                                  \* of CommandMetricsMetaclass.__new__ it is about to run,
                                  \* name, attrs.get('command_metrics_key'), and the locals
                                  \* command_metrics_key and new_class)

vars == <<python, properties, clock, buckets, cumulative, events, propagated, reporting,
          health_counts_snapshot,
          last_health_counts_snapshot, pc, last_time, current_time, won, sums,
          result, claim_log, circuit, ar, permits, history, setters, returned,
          built, __instances__, classes, defining>>

Callers == 1..NumCallers

\* the threads that report outcomes
Reporters == 1..NumReporters

\* where one thread calls health_counts(), and where one thread reports outcomes
Caller == 1
Reporter == 1

\* RollingNumberEvent / EventType members used by CommandMetrics
SUCCESS == "SUCCESS"
FAILURE == "FAILURE"
TIMEOUT == "TIMEOUT"
THREAD_POOL_REJECTED == "THREAD_POOL_REJECTED"
SEMAPHORE_REJECTED == "SEMAPHORE_REJECTED"
SHORT_CIRCUITED == "SHORT_CIRCUITED"
BAD_REQUEST == "BAD_REQUEST"

\* the kinds health_counts() sums, in the order it reads them (lines 151-156)
HealthKinds == <<SUCCESS, FAILURE, TIMEOUT, THREAD_POOL_REJECTED, SEMAPHORE_REJECTED,
                 SHORT_CIRCUITED>>
HealthKindSet == {HealthKinds[i] : i \in 1..Len(HealthKinds)}
\* the kinds the mark_* methods of CommandMetrics report
MarkKinds == {SUCCESS, FAILURE, TIMEOUT, BAD_REQUEST}
\* the kinds reported to the counter by other collaborators
DirectKinds == {THREAD_POOL_REJECTED, SEMAPHORE_REJECTED, SHORT_CIRCUITED}
Kinds == HealthKindSet \cup MarkKinds

\* the duration argument of mark_*: any number of milliseconds
Durations == {0, 7}

ZeroCounts == [k \in Kinds |-> 0]

(***************************************************************************)
(* Python object references: None, and Val(x) for a reference to the value *)
(* x (a number or a boolean).                                              *)
(***************************************************************************)
None == [none |-> TRUE]

Val(x) == [value |-> x]

(***************************************************************************)
(* CommandProperties (src/hystrix/command_properties.py).                  *)
(***************************************************************************)
\* the 21 settings: the fields Setter.__init__ creates (lines 542-562), named
\* without their leading underscore
BoolFields ==
    {"circuit_breaker_enabled", "circuit_breaker_force_closed",
     "circuit_breaker_force_open", "execution_isolation_thread_interrupt_on_timeout",
     "fallback_enabled", "metrics_rolling_percentile_enabled", "request_cache_enabled",
     "request_log_enabled"}

IntFields ==
    {"circuit_breaker_error_threshold_percentage",
     "circuit_breaker_request_volume_threshold",
     "circuit_breaker_sleep_window_in_milliseconds",
     "execution_isolation_semaphore_max_concurrent_requests",
     "execution_isolation_strategy", "execution_timeout_in_milliseconds",
     "fallback_isolation_semaphore_max_concurrent_requests",
     "metrics_health_snapshot_interval_in_milliseconds",
     "metrics_rolling_percentile_bucket_size",
     "metrics_rolling_percentile_window_in_milliseconds",
     "metrics_rolling_percentile_window_buckets",
     "metrics_rolling_statistical_window_in_milliseconds",
     "metrics_rolling_statistical_window_buckets"}

Fields == BoolFields \cup IntFields

\* the class defaults, lines 15-79, by the setting whose __init__ block names them
Defaults ==
    [circuit_breaker_enabled |-> Val(TRUE),
     circuit_breaker_request_volume_threshold |-> Val(20),
     circuit_breaker_sleep_window_in_milliseconds |-> Val(5000),
     circuit_breaker_error_threshold_percentage |-> Val(50),
     circuit_breaker_force_open |-> Val(FALSE),
     circuit_breaker_force_closed |-> Val(FALSE),
     execution_isolation_strategy |-> Val(0),
     execution_timeout_in_milliseconds |-> Val(1000),
     execution_isolation_semaphore_max_concurrent_requests |-> Val(10),
     fallback_isolation_semaphore_max_concurrent_requests |-> Val(10),
     fallback_enabled |-> Val(TRUE),
     execution_isolation_thread_interrupt_on_timeout |-> Val(TRUE),
     metrics_rolling_statistical_window_in_milliseconds |-> Val(10000),
     metrics_rolling_statistical_window_buckets |-> Val(10),
     metrics_rolling_percentile_enabled |-> Val(TRUE),
     metrics_rolling_percentile_window_in_milliseconds |-> Val(60000),
     metrics_rolling_percentile_window_buckets |-> Val(6),
     metrics_rolling_percentile_bucket_size |-> Val(100),
     metrics_health_snapshot_interval_in_milliseconds |-> Val(500),
     request_log_enabled |-> Val(TRUE),
     request_cache_enabled |-> Val(TRUE)]

\* Setter.__init__, lines 541-562: every field is None
Setter == [f \in Fields |-> None]

\* the Setter's getter of a field, lines 564-625
SetterGet(s, field) == s[field]

\* Setter.with_<field>(value), lines 627-709: the Setter's fields afterwards
\* (the method returns self)
SetterWith(s, field, value) == [s EXCEPT ![field] = value]

\* _property with a truth test for the test against None: an explicit False or
\* 0 would fall back to the default, which C18 rules out
PropertyIfTruthy(property_prefix, command_key, instance_property, default_value, setter_override_value) ==
    IF /\ setter_override_value # None
       /\ setter_override_value
             # (IF instance_property \in BoolFields THEN Val(FALSE) ELSE Val(0))
    THEN setter_override_value
    ELSE default_value

\* CommandProperties._property, lines 512-521
_property(property_prefix, command_key, instance_property, default_value, setter_override_value) ==
    IF setter_override_value # None THEN setter_override_value ELSE default_value

\* CommandProperties.__init__, lines 81-257: the fields of the new object, each
\* named as its getter (lines 267-510) names it
CommandProperties(command_key, setter, property_prefix) ==
    [f \in Fields |->
        _property(property_prefix, command_key, f, Defaults[f], SetterGet(setter, f))]

\* the Setter that configures the model's bounds
BoundsSetter ==
    SetterWith(
        SetterWith(
            SetterWith(Setter, "metrics_health_snapshot_interval_in_milliseconds",
                       Val(SnapshotInterval)),
            "metrics_rolling_statistical_window_in_milliseconds",
            Val(BucketSizeMs * BucketCount)),
        "metrics_rolling_statistical_window_buckets", Val(BucketCount))

\* the getters health_counts() and CommandMetrics.__init__ call
metrics_health_snapshot_interval_in_milliseconds ==
    properties.metrics_health_snapshot_interval_in_milliseconds.value

metrics_rolling_statistical_window_buckets ==
    properties.metrics_rolling_statistical_window_buckets.value

metrics_rolling_statistical_window_in_milliseconds ==
    properties.metrics_rolling_statistical_window_in_milliseconds.value

\* CommandMetrics.__init__ passing the health snapshot interval for the window
\* duration: outcomes would stay in the sums for other than the configured
\* window, which C15 rules out
RollingNumberArgsFromInterval ==
    [milliseconds   |-> metrics_health_snapshot_interval_in_milliseconds,
     bucket_numbers |-> metrics_rolling_statistical_window_buckets]

\* CommandMetrics.__init__, lines 60-62: the arguments of RollingNumber(...)
RollingNumberArgs ==
    [milliseconds   |-> metrics_rolling_statistical_window_in_milliseconds,
     bucket_numbers |-> metrics_rolling_statistical_window_buckets]

(***************************************************************************)
(* RollingNumber (hystrix/rolling_number.py), modelled from the            *)
(* specification of the rolling window: a bucket is [start, cnt].  The     *)
(* windows that outcomes are reported to all have buckets of 1 ms, so that *)
(* every time is the start of a bucket period and a bucket made at the     *)
(* time of an access is aligned to the bucket size.                        *)
(***************************************************************************)
bucket_size_ms == RollingNumberArgs.milliseconds \div RollingNumberArgs.bucket_numbers

NewBucket(start) == [start |-> start, cnt |-> ZeroCounts]

\* the last n elements of a sequence
LastN(s, n) == IF Len(s) <= n THEN s ELSE SubSeq(s, Len(s) - n + 1, Len(s))

\* Rollover: the buckets after an access at time `now`.
Roll(bs, now) ==
    IF Len(bs) = 0 THEN <<NewBucket(now)>>
    ELSE LET cur     == bs[Len(bs)]
             elapsed == (now - cur.start) \div bucket_size_ms
         IN  IF now < cur.start \/ elapsed = 0 THEN bs
             ELSE IF elapsed > RollingNumberArgs.bucket_numbers
                  THEN <<NewBucket(now)>>
             ELSE LastN(bs \o [i \in 1..elapsed |->
                                  NewBucket(cur.start + i * bucket_size_ms)],
                        RollingNumberArgs.bucket_numbers)

RECURSIVE SumSeq(_)
SumSeq(s) == IF Len(s) = 0 THEN 0 ELSE s[1] + SumSeq(Tail(s))

\* the sum of `kind` over the buckets of bs that are valid at `now`
ValidSum(bs, kind, now) ==
    SumSeq([i \in 1..Len(bs) |->
              IF bs[i].start <= now
                 /\ bs[i].start >= now - RollingNumberArgs.milliseconds
              THEN bs[i].cnt[kind] ELSE 0])

\* counter.rolling_sum(kind) at `now`: the value returned
rolling_sum(bs, kind, now) == ValidSum(Roll(bs, now), kind, now)

\* the bucket an access at the current time works on: the newest
CurrentBucket(bs) == bs[Len(bs)]

\* the buckets after 1 is added to the slot `kind` of the bucket that starts at
\* `start`; a bucket that has left the window is no longer among them
Add(bs, kind, start) ==
    [i \in 1..Len(bs) |->
        IF bs[i].start = start THEN [bs[i] EXCEPT !.cnt[kind] = @ + 1] ELSE bs[i]]

\* the six rolling sums the window shows at `now`
AllSums(bs, now) == [k \in HealthKindSet |-> rolling_sum(bs, k, now)]

(***************************************************************************)
(* HealthCounts and the arithmetic of health_counts(), lines 157-164.      *)
(***************************************************************************)
HealthCounts(total, error, error_percentage) ==
    [total_count |-> total, error_count |-> error, error_percentage |-> error_percentage]

\* line 157 with the failure term left out: a snapshot could show more errors
\* than requests, which C21 rules out
TotalCountWithoutFailure(s) ==
    s[SUCCESS] + s[TIMEOUT] + s[THREAD_POOL_REJECTED] + s[SHORT_CIRCUITED]
        + s[SEMAPHORE_REJECTED]

\* line 157
TotalCount(s) ==
    s[FAILURE] + s[SUCCESS] + s[TIMEOUT] + s[THREAD_POOL_REJECTED]
        + s[SHORT_CIRCUITED] + s[SEMAPHORE_REJECTED]

\* line 158 with the timeout term left out: what C5 rules out
ErrorCountWithoutTimeout(s) ==
    s[FAILURE] + s[THREAD_POOL_REJECTED] + s[SHORT_CIRCUITED] + s[SEMAPHORE_REJECTED]

\* line 158
ErrorCount(s) ==
    s[FAILURE] + s[TIMEOUT] + s[THREAD_POOL_REJECTED] + s[SHORT_CIRCUITED]
        + s[SEMAPHORE_REJECTED]

\* lines 159-162.  The module imports only absolute_import from __future__
\* (line 1), so "/" on the two integers is floor division under Python 2 and
\* true division under Python 3.
ErrorPercentage(error_count, total_count) ==
    IF total_count > 0
    THEN (IF python = 2 THEN (error_count \div total_count) * 100
          ELSE IF error_count = 0 THEN 0
          ELSE IntTrunc(FloatMul100(FloatDiv(error_count, total_count))))
    ELSE 0

\* lines 157-164: the snapshot made from the sums a refresh has read
Snapshot(s) ==
    HealthCounts(TotalCount(s), ErrorCount(s), ErrorPercentage(ErrorCount(s), TotalCount(s)))

\* line 146: is a refresh due
RefreshDue(cur, last, snapshot) ==
    (cur - last) >= metrics_health_snapshot_interval_in_milliseconds \/ snapshot = None

(***************************************************************************)
(* The circuit breaker's state (specification, sections 3 and 4.5): one    *)
(* cell holding the state and circuit_opened_at, changed by compare-and-   *)
(* set.  A new breaker is CLOSED.                                          *)
(***************************************************************************)
CLOSED == "CLOSED"
OPEN == "OPEN"
HALF_OPEN_TESTING == "HALF_OPEN_TESTING"

CircuitBreakerState(state, circuit_opened_at) ==
    [state |-> state, circuit_opened_at |-> circuit_opened_at]

\* a caller that has not called allow_request() yet
NoCall == [pc |-> "idle", now |-> 0, observed |-> CircuitBreakerState(CLOSED, 0),
           health |-> None, result |-> FALSE, after_trial |-> FALSE]

\* a caller may call allow_request(): it has made no call, or its last call has
\* returned or raised
Outside == {"idle", "done", "raised"}

InitCircuitBreaker ==
    /\ circuit = CircuitBreakerState(CLOSED, 0)
    /\ ar = [c \in Callers |-> NoCall]
    /\ permits = 0

(***************************************************************************)
(* History.  increments: one entry per increment made on the rolling       *)
(* window, with the start of the bucket it went to.  published: the        *)
(* latest marker time claimed by a refresh whose snapshot has been         *)
(* published so far (-1: none yet).  calls: the Setter.with_* calls made,  *)
(* in order.  definitions: the class definitions made, in order, each with *)
(* the object it yielded.  requests: the number of allow_request() calls   *)
(* made.  seen: per caller, the rolling-sum vectors the window has shown   *)
(* since the caller's claim.  completed: per event type, the mark_* calls  *)
(* that have returned.  marked_since: the time of the first mark_success / *)
(* mark_failure / mark_timeout call (-1: none yet).  overlapped: two       *)
(* mark_* calls have been in progress at the same time.  health_calls: the *)
(* number of health_counts() calls made.  A specification whose properties *)
(* do not read a part of the history leaves that part as it is.            *)
(***************************************************************************)
NoHistory ==
    [increments |-> <<>>, published |-> -1, calls |-> <<>>, definitions |-> <<>>,
     requests |-> 0, seen |-> [t \in Callers |-> {}],
     completed |-> [k \in MarkKinds |-> 0], marked_since |-> -1, overlapped |-> FALSE,
     health_calls |-> 0]

InitHistory == history = NoHistory

HistoryUnchanged == UNCHANGED history

\* the Setter objects the model builds configurations with
SetterIds == {1, 2}

\* the interpreters setup.py declares (classifiers 'Programming Language ::
\* Python :: 2' and ':: 3'), by major version
Interpreters == {2, 3}

\* a thread that is not reporting an outcome
NoReport == [pc |-> "idle", kind |-> "", start |-> 0]

\* a thread that is not defining a class
NoDefinition ==
    [pc |-> "idle", name |-> "", attr |-> None, command_metrics_key |-> "", new_class |-> 0]

\* the interpreter chosen; no Setter touched, nothing constructed, no class
\* defined
InitConfiguration ==
    /\ python \in Interpreters
    /\ setters = [o \in SetterIds |-> Setter]
    /\ returned = None
    /\ built = None
    /\ __instances__ = [k \in {} |-> 0]
    /\ classes = <<>>
    /\ defining = [t \in Callers |-> NoDefinition]

ConfigurationUnchanged ==
    UNCHANGED <<python, properties, setters, returned, built, __instances__, classes,
                defining>>

(***************************************************************************)
(* Init: the state after CommandMetrics.__init__ (lines 58-69), run at     *)
(* time 0 with no call made yet.                                           *)
(***************************************************************************)
Init ==
    /\ properties = CommandProperties("Command", BoundsSetter, None)
    /\ clock = 0
    /\ buckets = <<>>
    /\ cumulative = ZeroCounts
    /\ events = [k \in MarkKinds |-> 0]
    /\ propagated = [k \in MarkKinds |-> 0]
    /\ reporting = [r \in Reporters |-> NoReport]
    /\ health_counts_snapshot = None
    /\ last_health_counts_snapshot = 0
    /\ pc = [t \in Callers |-> "idle"]
    /\ last_time = [t \in Callers |-> 0]
    /\ current_time = [t \in Callers |-> 0]
    /\ won = [t \in Callers |-> FALSE]
    /\ sums = [t \in Callers |-> [k \in HealthKindSet |-> 0]]
    /\ result = [t \in Callers |-> None]
    /\ claim_log = <<>>
    /\ InitCircuitBreaker
    /\ InitHistory
    /\ InitConfiguration

(***************************************************************************)
(* What the history of Spec records.  While a caller is between its        *)
(* successful claim (line 147) and its publication (line 164), seen        *)
(* collects the rolling sums the window shows in each state it passes.  A  *)
(* mark_* call has returned when it is no longer in progress and has not   *)
(* raised.                                                                 *)
(***************************************************************************)
SumLines == {"l151", "l152", "l153", "l154", "l155", "l156"}
Refreshing == SumLines \cup {"l164"}

\* the calls of a kind in progress
Reporting(kind) ==
    Cardinality({r \in Reporters : reporting[r].pc # "idle" /\ reporting[r].kind = kind})

Observed ==
    history' =
        [history EXCEPT
            !.seen =
                [t \in Callers |->
                    IF pc'[t] \in Refreshing
                    THEN (IF pc[t] \in Refreshing THEN history.seen[t] ELSE {})
                             \cup {AllSums(buckets', clock')}
                    ELSE IF pc'[t] = "l166" THEN history.seen[t]
                    ELSE {}],
            !.completed =
                [k \in MarkKinds |->
                    IF Reporting(k)' < Reporting(k) THEN history.completed[k] + 1
                    ELSE history.completed[k]],
            !.marked_since =
                IF @ = -1 /\ \E k \in {SUCCESS, FAILURE, TIMEOUT} : events'[k] > 0
                THEN clock ELSE @,
            !.overlapped =
                @ \/ Reporting(SUCCESS)' + Reporting(FAILURE)' + Reporting(TIMEOUT)' >= 2,
            !.health_calls =
                IF \E t \in Callers : pc[t] \in {"idle", "done"} /\ pc'[t] = "l145"
                THEN @ + 1 ELSE @]

\* the objects no method of CommandMetrics writes to
OthersUnchanged ==
    /\ ConfigurationUnchanged
    /\ UNCHANGED <<circuit, ar, permits>>

\* the outcome reports made so far, those in progress included
Reports ==
    events[SUCCESS] + events[FAILURE] + events[TIMEOUT] + events[BAD_REQUEST]
        + cumulative[THREAD_POOL_REJECTED] + Reporting(THREAD_POOL_REJECTED)
        + cumulative[SEMAPHORE_REJECTED] + Reporting(SEMAPHORE_REJECTED)
        + cumulative[SHORT_CIRCUITED] + Reporting(SHORT_CIRCUITED)

(***************************************************************************)
(* The clock advances by one millisecond.                                  *)
(***************************************************************************)
Tick ==
    /\ clock < MaxTime
    /\ clock' = clock + 1
    /\ UNCHANGED <<buckets, cumulative, events, propagated, reporting,
                   health_counts_snapshot, last_health_counts_snapshot, pc, last_time,
                   current_time, won, sums, result, claim_log>>
    /\ OthersUnchanged

(***************************************************************************)
(* counter.increment(kind), the call CommandMetrics makes on its           *)
(* RollingNumber.  The window takes no lock around the whole call: the     *)
(* call rolls the window to the current time and takes the current bucket, *)
(* and then adds 1 to that bucket's slot of the kind, atomically.  Between *)
(* the two any other thread may act, so the bucket a call adds to may have *)
(* left the window by then.                                                *)
(***************************************************************************)
\* the call starts: it rolls the window and takes the current bucket
increment_current_bucket(r, kind) ==
    /\ buckets' = Roll(buckets, clock)
    /\ reporting' = [reporting EXCEPT ![r] =
                        [pc |-> "add", kind |-> kind, start |-> CurrentBucket(buckets').start]]

\* the call adds 1 to the slot of the bucket it took, and returns; so does the
\* mark_* method that made the call
increment_add(r) ==
    /\ reporting[r].pc = "add"
    /\ buckets' = Add(buckets, reporting[r].kind, reporting[r].start)
    /\ cumulative' = [cumulative EXCEPT ![reporting[r].kind] = @ + 1]
    /\ reporting' = [reporting EXCEPT ![r] = NoReport]
    /\ UNCHANGED <<clock, events, propagated, health_counts_snapshot,
                   last_health_counts_snapshot, pc, last_time, current_time, won,
                   sums, result, claim_log>>
    /\ OthersUnchanged

(***************************************************************************)
(* mark_success / mark_failure / mark_timeout / mark_bad_request, lines    *)
(* 71-132.  Each calls event_notifier.mark_event(type, key), always with   *)
(* key = self.command_metrics_key, and then counter.increment(type).  The  *)
(* notifier is a collaborator: `raises` says whether its mark_event        *)
(* raises.  No method has a try/except, so an exception leaves the method  *)
(* at the notifier's line.  Nothing is locked, so other threads act        *)
(* between the two statements of a call.                                   *)
(***************************************************************************)
\* the first statement of a mark_* method: the notifier is called
MarkEvent(r, kind, duration, raises) ==
    /\ reporting[r].pc = "idle"
    /\ Reports < MaxMarks
    /\ events' = [events EXCEPT ![kind] = @ + 1]
    /\ IF raises
       THEN /\ propagated' = [propagated EXCEPT ![kind] = @ + 1]
            /\ UNCHANGED reporting
       ELSE /\ reporting' = [reporting EXCEPT ![r] =
                               [pc |-> "increment", kind |-> kind, start |-> 0]]
            /\ UNCHANGED propagated
    /\ UNCHANGED <<clock, buckets, cumulative, health_counts_snapshot,
                   last_health_counts_snapshot, pc, last_time, current_time, won,
                   sums, result, claim_log>>
    /\ OthersUnchanged

\* the second statement of a mark_* method: counter.increment(kind) is called
MarkIncrement(r, kind) ==
    /\ reporting[r].pc = "increment"
    /\ reporting[r].kind = kind
    /\ increment_current_bucket(r, kind)
    /\ UNCHANGED <<clock, cumulative, events, propagated, health_counts_snapshot,
                   last_health_counts_snapshot, pc, last_time, current_time, won,
                   sums, result, claim_log>>
    /\ OthersUnchanged

\* a mark_* method returning after its first statement
MarkReturn(r, kind) ==
    /\ reporting[r].pc = "increment"
    /\ reporting[r].kind = kind
    /\ reporting' = [reporting EXCEPT ![r] = NoReport]
    /\ UNCHANGED <<clock, buckets, cumulative, events, propagated,
                   health_counts_snapshot, last_health_counts_snapshot, pc, last_time,
                   current_time, won, sums, result, claim_log>>
    /\ OthersUnchanged

\* mark_success, lines 71-83
mark_success(r, duration, raises) == MarkEvent(r, SUCCESS, duration, raises)

\* mark_success, line 84
mark_success_increment(r) == MarkIncrement(r, SUCCESS)

\* mark_failure, lines 86-98
mark_failure(r, duration, raises) == MarkEvent(r, FAILURE, duration, raises)

\* mark_failure, line 99
mark_failure_increment(r) == MarkIncrement(r, FAILURE)

\* mark_timeout, lines 101-114
mark_timeout(r, duration, raises) == MarkEvent(r, TIMEOUT, duration, raises)

\* mark_timeout without line 115: the call returns with the notifier called and
\* the counter not incremented, which C10 rules out
mark_timeout_without_increment(r) == MarkReturn(r, TIMEOUT)

\* mark_timeout, line 115
mark_timeout_increment(r) == MarkIncrement(r, TIMEOUT)

\* mark_bad_request, lines 117-131
mark_bad_request(r, duration, raises) == MarkEvent(r, BAD_REQUEST, duration, raises)

\* mark_bad_request, line 132
mark_bad_request_increment(r) == MarkIncrement(r, BAD_REQUEST)

(***************************************************************************)
(* A rejection or a short circuit reported to the counter by the command   *)
(* wrapper: counter.increment(kind).                                       *)
(***************************************************************************)
report_rejection(r, kind) ==
    /\ reporting[r].pc = "idle"
    /\ Reports < MaxMarks
    /\ increment_current_bucket(r, kind)
    /\ UNCHANGED <<clock, cumulative, events, propagated, health_counts_snapshot,
                   last_health_counts_snapshot, pc, last_time, current_time, won,
                   sums, result, claim_log>>
    /\ OthersUnchanged

\* the calls of the reporting threads R
MarkSuccess(R) == \E r \in R, d \in Durations, x \in BOOLEAN : mark_success(r, d, x)
MarkSuccessIncrement(R) == \E r \in R : mark_success_increment(r)
MarkFailure(R) == \E r \in R, d \in Durations, x \in BOOLEAN : mark_failure(r, d, x)
MarkFailureIncrement(R) == \E r \in R : mark_failure_increment(r)
MarkTimeout(R) == \E r \in R, d \in Durations, x \in BOOLEAN : mark_timeout(r, d, x)
MarkTimeoutIncrement(R) == \E r \in R : mark_timeout_increment(r)
MarkBadRequest(R) == \E r \in R, d \in Durations, x \in BOOLEAN : mark_bad_request(r, d, x)
MarkBadRequestIncrement(R) == \E r \in R : mark_bad_request_increment(r)
ReportRejection(R) == \E r \in R, kind \in DirectKinds : report_rejection(r, kind)
IncrementAdd(R) == \E r \in R : increment_add(r)

(***************************************************************************)
(* health_counts(), lines 134-166, one shared access per step.             *)
(***************************************************************************)
\* line 144: the call starts and reads the marker
hc_get_last(t) ==
    /\ pc[t] \in {"idle", "done"}
    /\ last_time' = [last_time EXCEPT ![t] = last_health_counts_snapshot]
    /\ current_time' = [current_time EXCEPT ![t] = 0]
    /\ won' = [won EXCEPT ![t] = FALSE]
    /\ sums' = [sums EXCEPT ![t] = [k \in HealthKindSet |-> 0]]
    /\ result' = [result EXCEPT ![t] = None]
    /\ pc' = [pc EXCEPT ![t] = "l145"]
    /\ UNCHANGED <<clock, buckets, cumulative, events, propagated, reporting,
                   health_counts_snapshot, last_health_counts_snapshot, claim_log>>
    /\ OthersUnchanged

\* line 145: it reads the clock
hc_current_time(t) ==
    /\ pc[t] = "l145"
    /\ current_time' = [current_time EXCEPT ![t] = clock]
    /\ pc' = [pc EXCEPT ![t] = "l146"]
    /\ UNCHANGED <<clock, buckets, cumulative, events, propagated, reporting,
                   health_counts_snapshot, last_health_counts_snapshot, last_time,
                   won, sums, result, claim_log>>
    /\ OthersUnchanged

\* line 146: the test for a refresh
hc_test(t) ==
    /\ pc[t] = "l146"
    /\ pc' = [pc EXCEPT ![t] =
                IF RefreshDue(current_time[t], last_time[t], health_counts_snapshot)
                THEN "l147" ELSE "l166"]
    /\ UNCHANGED <<clock, buckets, cumulative, events, propagated, reporting,
                   health_counts_snapshot, last_health_counts_snapshot, last_time,
                   current_time, won, sums, result, claim_log>>
    /\ OthersUnchanged

\* AtomicLong.compare_and_set(expect, update) on the value v: succeeds iff v = expect
CasSucceeds(v, expect) == v = expect

\* line 147: the claim
hc_compare_and_set(t) ==
    /\ pc[t] = "l147"
    /\ IF CasSucceeds(last_health_counts_snapshot, last_time[t])
       THEN /\ last_health_counts_snapshot' = current_time[t]
            /\ won' = [won EXCEPT ![t] = TRUE]
            /\ claim_log' = Append(claim_log, current_time[t])
            /\ pc' = [pc EXCEPT ![t] = "l151"]
       ELSE /\ pc' = [pc EXCEPT ![t] = "l166"]
            /\ UNCHANGED <<last_health_counts_snapshot, won, claim_log>>
    /\ UNCHANGED <<clock, buckets, cumulative, events, propagated, reporting,
                   health_counts_snapshot, last_time, current_time, sums, result>>
    /\ OthersUnchanged

\* the kind each of the lines 151-156 sums, and the line that follows it
SumIndex(line) ==
    CASE line = "l151" -> 1 [] line = "l152" -> 2 [] line = "l153" -> 3
      [] line = "l154" -> 4 [] line = "l155" -> 5 [] line = "l156" -> 6

LineAfter(line) ==
    CASE line = "l151" -> "l152" [] line = "l152" -> "l153" [] line = "l153" -> "l154"
      [] line = "l154" -> "l155" [] line = "l155" -> "l156" [] line = "l156" -> "l164"

\* lines 151-156: one counter.rolling_sum(kind) call, which also rolls the window
hc_rolling_sum(t) ==
    /\ pc[t] \in SumLines
    /\ LET kind == HealthKinds[SumIndex(pc[t])]
       IN  /\ sums' = [sums EXCEPT ![t][kind] = rolling_sum(buckets, kind, clock)]
           /\ buckets' = Roll(buckets, clock)
    /\ pc' = [pc EXCEPT ![t] = LineAfter(pc[t])]
    /\ UNCHANGED <<clock, cumulative, events, propagated, reporting,
                   health_counts_snapshot, last_health_counts_snapshot, last_time,
                   current_time, won, result, claim_log>>
    /\ OthersUnchanged

\* lines 157-164: the new HealthCounts is made and published
hc_publish(t) ==
    /\ pc[t] = "l164"
    /\ health_counts_snapshot' = Snapshot(sums[t])
    /\ pc' = [pc EXCEPT ![t] = "l166"]
    /\ UNCHANGED <<clock, buckets, cumulative, events, propagated, reporting,
                   last_health_counts_snapshot, last_time, current_time, won, sums,
                   result, claim_log>>
    /\ OthersUnchanged

\* line 166: the call returns self.health_counts_snapshot
hc_return(t) ==
    /\ pc[t] = "l166"
    /\ result' = [result EXCEPT ![t] = health_counts_snapshot]
    /\ pc' = [pc EXCEPT ![t] = "done"]
    /\ UNCHANGED <<clock, buckets, cumulative, events, propagated, reporting,
                   health_counts_snapshot, last_health_counts_snapshot, last_time,
                   current_time, won, sums, claim_log>>
    /\ OthersUnchanged

HcGetLast == \E t \in Callers : hc_get_last(t)
HcCurrentTime == \E t \in Callers : hc_current_time(t)
HcTest == \E t \in Callers : hc_test(t)
HcCompareAndSet == \E t \in Callers : hc_compare_and_set(t)
HcRollingSum == \E t \in Callers : hc_rolling_sum(t)
HcPublish == \E t \in Callers : hc_publish(t)
HcReturn == \E t \in Callers : hc_return(t)

\* at most MaxCalls health_counts() calls
CallsBounded == history.health_calls < MaxCalls

Next ==
    \/ Tick /\ Observed
    \/ MarkSuccess(Reporters) /\ Observed
    \/ MarkSuccessIncrement(Reporters) /\ Observed
    \/ MarkFailure(Reporters) /\ Observed
    \/ MarkFailureIncrement(Reporters) /\ Observed
    \/ MarkTimeout(Reporters) /\ Observed
    \/ MarkTimeoutIncrement(Reporters) /\ Observed
    \/ IncrementAdd(Reporters) /\ Observed
    \/ hc_get_last(Caller) /\ CallsBounded /\ Observed
    \/ hc_current_time(Caller) /\ Observed
    \/ hc_test(Caller) /\ Observed
    \/ hc_compare_and_set(Caller) /\ Observed
    \/ hc_rolling_sum(Caller) /\ Observed
    \/ hc_publish(Caller) /\ Observed
    \/ hc_return(Caller) /\ Observed

(***************************************************************************)
(* Spec: the reporting threads make at most MaxMarks mark_success,         *)
(* mark_failure and mark_timeout calls and one thread makes at most        *)
(* MaxCalls health_counts() calls, every statement of every call           *)
(* interleaved with every other and with the clock.                        *)
(***************************************************************************)
Spec == Init /\ [][Next]_vars

(***************************************************************************)
(* SpecCallers: the callers of health_counts() in every interleaving with  *)
(* each other and with the clock, while no outcome is reported.            *)
(***************************************************************************)
NextCallers ==
    \/ Tick /\ HistoryUnchanged
    \/ HcGetLast /\ HistoryUnchanged
    \/ HcCurrentTime /\ HistoryUnchanged
    \/ HcTest /\ HistoryUnchanged
    \/ HcCompareAndSet /\ HistoryUnchanged
    \/ HcRollingSum /\ HistoryUnchanged
    \/ HcPublish /\ HistoryUnchanged
    \/ HcReturn /\ HistoryUnchanged

SpecCallers == Init /\ [][NextCallers]_vars

(***************************************************************************)
(* Vocabulary of the properties.                                           *)
(***************************************************************************)
\* the caller's last call has returned; its locals and result are still in place
Completed(t) == pc[t] = "done"

\* the caller has published its snapshot and has not yet returned
JustPublished(t) == pc[t] = "l166" /\ won[t]

Abs(x) == IF x < 0 THEN -x ELSE x

\* the rolling sums the window shows now
SumsNow == AllSums(buckets, clock)

(***************************************************************************)
(* C1: any two health_counts() calls whose call times differ by less than  *)
(* the snapshot interval return the identical snapshot, and a call made    *)
(* once the interval has elapsed since the marker returns a newly          *)
(* recomputed snapshot.                                                    *)
(***************************************************************************)
C1_AnyTwoCallsWithinInterval ==
    /\ \A a, b \in Callers :
          (/\ Completed(a) /\ Completed(b)
           /\ Abs(current_time[a] - current_time[b])
                 < metrics_health_snapshot_interval_in_milliseconds)
          => result[a] = result[b]
    /\ \A a \in Callers :
          (/\ Completed(a)
           /\ current_time[a] - last_time[a]
                 >= metrics_health_snapshot_interval_in_milliseconds)
          => (won[a] /\ result[a] = Snapshot(sums[a]))

(***************************************************************************)
(* C2: among the callers that read the same marker value and find a        *)
(* refresh due, no two succeed in the compare-and-set, and a caller that   *)
(* fails it returns without having called rolling_sum.                     *)
(***************************************************************************)
C2_ExactlyOneWinner ==
    /\ \A a, b \in Callers :
          (a # b /\ won[a] /\ won[b]) => last_time[a] # last_time[b]
    /\ \A a \in Callers :
          (Completed(a) /\ ~won[a]) => sums[a] = [k \in HealthKindSet |-> 0]

(***************************************************************************)
(* C3: any two recomputations are claimed at marker times at least one     *)
(* snapshot interval apart.                                                *)
(***************************************************************************)
C3_OncePerInterval ==
    \A i, j \in DOMAIN claim_log :
        i < j => claim_log[j] - claim_log[i]
                    >= metrics_health_snapshot_interval_in_milliseconds

(***************************************************************************)
(* C4: every health_counts() call returns a HealthCounts object, never     *)
(* None.                                                                   *)
(***************************************************************************)
C4_NeverNone == \A t \in Callers : Completed(t) => result[t] # None

(***************************************************************************)
(* C5: every snapshot a refresh publishes has total_requests equal to the  *)
(* sum of the six rolling sums the refresh read, and error_count equal to  *)
(* total_requests minus the SUCCESS rolling sum.                           *)
(***************************************************************************)
C5_TotalAndErrorFromSums ==
    [][\A t \in Callers :
          (pc[t] = "l164" /\ pc'[t] = "l166")
          => /\ health_counts_snapshot'.total_count
                   = sums[t][SUCCESS] + sums[t][FAILURE] + sums[t][TIMEOUT]
                       + sums[t][THREAD_POOL_REJECTED] + sums[t][SEMAPHORE_REJECTED]
                       + sums[t][SHORT_CIRCUITED]
             /\ health_counts_snapshot'.error_count
                   = health_counts_snapshot'.total_count - sums[t][SUCCESS]]_vars

\* C5 witness: a refresh has published a snapshot made of a success and a short
\* circuit: two requests, one error
C5_Witness ==
    \E t \in Callers :
        /\ JustPublished(t)
        /\ sums[t][SUCCESS] = 1 /\ sums[t][SHORT_CIRCUITED] = 1
        /\ health_counts_snapshot # None
        /\ health_counts_snapshot.total_count = 2
        /\ health_counts_snapshot.error_count = 1

(***************************************************************************)
(* SpecPct: the arithmetic of lines 157-164 on every pair                  *)
(* 0 <= error_count <= total_count <= MaxTotal.  Each initial state is a   *)
(* state of the program in which caller 1 has claimed a refresh at time 0  *)
(* and has read total_count - error_count successes and error_count        *)
(* failures, all reported at time 0.                                       *)
(***************************************************************************)
CountsOf(success, failure) ==
    [k \in Kinds |-> IF k = SUCCESS THEN success ELSE IF k = FAILURE THEN failure ELSE 0]

InitPct ==
    \E total \in 0..MaxTotal : \E error \in 0..total :
        /\ properties = CommandProperties("Command", BoundsSetter, None)
        /\ clock = 0
        /\ buckets = <<[start |-> 0, cnt |-> CountsOf(total - error, error)]>>
        /\ cumulative = CountsOf(total - error, error)
        /\ events = [k \in MarkKinds |-> CountsOf(total - error, error)[k]]
        /\ propagated = [k \in MarkKinds |-> 0]
        /\ reporting = [r \in Reporters |-> NoReport]
        /\ health_counts_snapshot = None
        /\ last_health_counts_snapshot = 0
        /\ pc = [t \in Callers |-> IF t = 1 THEN "l164" ELSE "idle"]
        /\ last_time = [t \in Callers |-> 0]
        /\ current_time = [t \in Callers |-> 0]
        /\ won = [t \in Callers |-> t = 1]
        /\ sums = [t \in Callers |->
                     [k \in HealthKindSet |->
                        IF t = 1 THEN CountsOf(total - error, error)[k] ELSE 0]]
        /\ result = [t \in Callers |-> None]
        /\ claim_log = <<0>>
        /\ InitCircuitBreaker
        /\ InitHistory
        /\ InitConfiguration

NextPct ==
    \/ HcPublish /\ HistoryUnchanged
    \/ HcReturn /\ HistoryUnchanged

SpecPct == InitPct /\ [][NextPct]_vars

(***************************************************************************)
(* C6: for every snapshot, error_percentage = floor(error_count * 100 /    *)
(* total_requests) when total_requests > 0, and 0 when total_requests = 0. *)
(***************************************************************************)
C6_ExactFloor ==
    health_counts_snapshot # None
    => health_counts_snapshot.error_percentage
          = IF health_counts_snapshot.total_count > 0
            THEN (health_counts_snapshot.error_count * 100)
                     \div health_counts_snapshot.total_count
            ELSE 0

(***************************************************************************)
(* C7: each published HealthCounts reflects the rolling window as read at  *)
(* one instant: at some point between the refresh's claim and its          *)
(* publication the six rolling sums had exactly the values the refresh     *)
(* used.                                                                   *)
(***************************************************************************)
C7_ReadAtOneInstant == \A t \in Callers : JustPublished(t) => sums[t] \in history.seen[t]

(***************************************************************************)
(* C8: when event_notifier.mark_event raises during a mark_* call, the     *)
(* exception does not propagate to the caller and the call goes on to      *)
(* increment the rolling counter of its kind by one.                       *)
(***************************************************************************)
HookFailureIsolated(r, kind) ==
    /\ propagated' = propagated
    /\ reporting'[r].pc = "increment" /\ reporting'[r].kind = kind

C8_HookFailureIsolated ==
    [][\A r \in Reporters, d \in Durations :
          /\ mark_success(r, d, TRUE) => HookFailureIsolated(r, SUCCESS)
          /\ mark_failure(r, d, TRUE) => HookFailureIsolated(r, FAILURE)
          /\ mark_timeout(r, d, TRUE) => HookFailureIsolated(r, TIMEOUT)
          /\ mark_bad_request(r, d, TRUE) => HookFailureIsolated(r, BAD_REQUEST)]_vars

(***************************************************************************)
(* C9: each mark_* call adds exactly 1 to the rolling counter of its own   *)
(* kind, leaves the counter of every other kind unchanged, calls the       *)
(* notifier exactly once with the matching event type, and its duration    *)
(* argument affects no counter and no snapshot.  Statement by statement:   *)
(* the first statement of a call notifies its own type once, touches no    *)
(* counter and no snapshot, and leaves the call to go on to its increment; *)
(* the second takes the current bucket for the call's own kind; and the    *)
(* addition that ends the call adds 1 to that kind and to no other.        *)
(***************************************************************************)
NotifiesAndGoesOn(r, kind) ==
    /\ events' = [events EXCEPT ![kind] = @ + 1]
    /\ reporting'[r].pc = "increment" /\ reporting'[r].kind = kind
    /\ \A k \in Kinds : rolling_sum(buckets', k, clock') = rolling_sum(buckets, k, clock)
    /\ cumulative' = cumulative
    /\ health_counts_snapshot' = health_counts_snapshot

TakesBucketFor(r, kind) ==
    /\ reporting'[r].pc = "add" /\ reporting'[r].kind = kind
    /\ events' = events
    /\ \A k \in Kinds : rolling_sum(buckets', k, clock') = rolling_sum(buckets, k, clock)
    /\ cumulative' = cumulative
    /\ health_counts_snapshot' = health_counts_snapshot

AddsOneTo(kind) ==
    /\ cumulative' = [cumulative EXCEPT ![kind] = @ + 1]
    /\ \A k \in Kinds \ {kind} :
          rolling_sum(buckets', k, clock') = rolling_sum(buckets, k, clock)
    /\ events' = events
    /\ health_counts_snapshot' = health_counts_snapshot

C9_MarkAddsOneToItsKind ==
    [][\A r \in Reporters :
          /\ \A d \in Durations, x \in BOOLEAN :
                /\ mark_success(r, d, x) => NotifiesAndGoesOn(r, SUCCESS)
                /\ mark_failure(r, d, x) => NotifiesAndGoesOn(r, FAILURE)
                /\ mark_timeout(r, d, x) => NotifiesAndGoesOn(r, TIMEOUT)
                /\ mark_bad_request(r, d, x) => NotifiesAndGoesOn(r, BAD_REQUEST)
          /\ mark_success_increment(r) => TakesBucketFor(r, SUCCESS)
          /\ mark_failure_increment(r) => TakesBucketFor(r, FAILURE)
          /\ mark_timeout_increment(r) => TakesBucketFor(r, TIMEOUT)
          /\ mark_bad_request_increment(r) => TakesBucketFor(r, BAD_REQUEST)
          /\ increment_add(r) => AddsOneTo(reporting[r].kind)]_vars

(***************************************************************************)
(* C10: no lost updates.  When N calls to mark_success / mark_failure /    *)
(* mark_timeout, made by any number of threads whose statements            *)
(* interleave, have returned, all within the current bucket period, the    *)
(* rolling sums of the three kinds add up to N, and a refresh during which *)
(* the window does not change, with nothing else reported, publishes       *)
(* total_requests = N.                                                     *)
(***************************************************************************)
\* the mark_success / mark_failure / mark_timeout calls that have returned
MarksCompleted ==
    history.completed[SUCCESS] + history.completed[FAILURE] + history.completed[TIMEOUT]

\* every mark_success / mark_failure / mark_timeout call made so far started
\* inside the period of the bucket that is current now
InOneBucketPeriod ==
    /\ Len(buckets) > 0
    /\ clock < CurrentBucket(buckets).start + bucket_size_ms
    /\ history.marked_since # -1 => history.marked_since >= CurrentBucket(buckets).start

NothingElseReported == \A k \in DirectKinds \cup {BAD_REQUEST} : cumulative[k] = 0

C10_NoLostUpdates ==
    /\ InOneBucketPeriod
       => rolling_sum(buckets, SUCCESS, clock) + rolling_sum(buckets, FAILURE, clock)
             + rolling_sum(buckets, TIMEOUT, clock) = MarksCompleted
    /\ \A t \in Callers :
          (/\ JustPublished(t)
           /\ health_counts_snapshot = Snapshot(sums[t])
           /\ history.seen[t] = {SumsNow}
           /\ InOneBucketPeriod
           /\ NothingElseReported)
          => health_counts_snapshot.total_count = MarksCompleted

\* C10 witness: MaxMarks calls of two kinds, both in progress at the same time,
\* have returned inside one bucket period and the refresh that followed has
\* published their number
C10_Witness ==
    \E t \in Callers :
        /\ JustPublished(t)
        /\ history.seen[t] = {SumsNow}
        /\ InOneBucketPeriod
        /\ NothingElseReported
        /\ history.overlapped
        /\ MarksCompleted = MaxMarks
        /\ cumulative[FAILURE] > 0 /\ cumulative[TIMEOUT] > 0
        /\ health_counts_snapshot # None
        /\ health_counts_snapshot.total_count = MaxMarks

(***************************************************************************)
(* The circuit breaker (specification, section 4.5).  Its thresholds and   *)
(* flags are the CommandProperties getters below; its health signal is    *)
(* what a health_counts() call of the calling thread returns, the call     *)
(* running line by line like any other.                                    *)
(***************************************************************************)
\* command_properties.py lines 322-333
circuit_breaker_request_volume_threshold ==
    properties.circuit_breaker_request_volume_threshold.value

\* command_properties.py lines 281-294
circuit_breaker_error_threshold_percentage ==
    properties.circuit_breaker_error_threshold_percentage.value

\* circuit_breaker_sleep_window_in_milliseconds() returning another field of the
\* object: what C12 rules out
sleep_window_from_strategy == properties.execution_isolation_strategy.value

\* command_properties.py lines 335-342
circuit_breaker_sleep_window_in_milliseconds ==
    properties.circuit_breaker_sleep_window_in_milliseconds.value

\* command_properties.py lines 296-307
circuit_breaker_force_closed == properties.circuit_breaker_force_closed.value

\* circuit_breaker_force_open() returning the force_closed field: what C14 rules out
force_open_from_force_closed == properties.circuit_breaker_force_closed.value

\* command_properties.py lines 309-320
circuit_breaker_force_open == properties.circuit_breaker_force_open.value

\* the trip condition on a health snapshot
TripCondition(health) ==
    /\ health.total_count >= circuit_breaker_request_volume_threshold
    /\ health.error_percentage >= circuit_breaker_error_threshold_percentage

\* allow_request(now), first step: the caller reads the breaker's state; when
\* the state is CLOSED and no force flag is set it goes on to call
\* health_counts(), which has not started yet
allow_request_read(c) ==
    /\ ar[c].pc \in Outside
    /\ LET reads_health == /\ circuit.state = CLOSED
                           /\ ~circuit_breaker_force_open
                           /\ ~circuit_breaker_force_closed
       IN  ar' = [ar EXCEPT ![c] =
                    [pc |-> IF reads_health THEN "health" ELSE "decide",
                     now |-> clock, observed |-> circuit, health |-> None,
                     result |-> FALSE,
                     after_trial |-> circuit.state = CLOSED /\ permits = 1]]
    /\ ConfigurationUnchanged
    /\ UNCHANGED <<clock, buckets, cumulative, events, propagated, reporting,
                   health_counts_snapshot, last_health_counts_snapshot, pc, last_time,
                   current_time, won, sums, result, claim_log, circuit, permits>>

\* allow_request(now) calls health_counts(): line 144 of the call
allow_request_health_counts(c) ==
    /\ ar[c].pc = "health"
    /\ pc[c] = "idle"
    /\ hc_get_last(c)

\* allow_request(now): the health_counts() call has returned; allow_request
\* has the value returned and the frame of the call is gone
allow_request_health(c) ==
    /\ ar[c].pc = "health"
    /\ pc[c] = "done"
    /\ ar' = [ar EXCEPT ![c].health = result[c], ![c].pc = "decide"]
    /\ pc' = [pc EXCEPT ![c] = "idle"]
    /\ last_time' = [last_time EXCEPT ![c] = 0]
    /\ current_time' = [current_time EXCEPT ![c] = 0]
    /\ won' = [won EXCEPT ![c] = FALSE]
    /\ sums' = [sums EXCEPT ![c] = [k \in HealthKindSet |-> 0]]
    /\ result' = [result EXCEPT ![c] = None]
    /\ ConfigurationUnchanged
    /\ UNCHANGED <<clock, buckets, cumulative, events, propagated, reporting,
                   health_counts_snapshot, last_health_counts_snapshot, claim_log,
                   circuit, permits>>

\* allow_request(now), last step: the decision, the compare-and-set of the
\* state it read and the return.  The trip condition reads the attributes
\* total_requests and error_percentage of the health it was given: on None the
\* read raises AttributeError, which ends the call with no decision made.
allow_request_decide(c) ==
    /\ ar[c].pc = "decide"
    /\ LET a    == ar[c]
           obs  == a.observed
           cas  == circuit = obs
           evaluates == /\ obs.state = CLOSED
                        /\ ~circuit_breaker_force_closed
           trip == /\ evaluates
                   /\ TripCondition(a.health)
           trial == /\ obs.state = OPEN
                    /\ a.now - obs.circuit_opened_at
                          >= circuit_breaker_sleep_window_in_milliseconds
       IN  IF circuit_breaker_force_open
           THEN /\ ar' = [ar EXCEPT ![c].pc = "done", ![c].result = FALSE]
                /\ UNCHANGED <<circuit, permits>>
           ELSE IF evaluates /\ a.health = None
           THEN /\ ar' = [ar EXCEPT ![c].pc = "raised"]
                /\ UNCHANGED <<circuit, permits>>
           ELSE IF trip
           THEN /\ ar' = [ar EXCEPT ![c].pc = "done", ![c].result = FALSE]
                /\ circuit' = IF cas THEN CircuitBreakerState(OPEN, a.now) ELSE circuit
                /\ permits' = IF cas THEN 0 ELSE permits
           ELSE IF trial
           THEN /\ ar' = [ar EXCEPT ![c].pc = "done", ![c].result = cas]
                /\ circuit' = IF cas
                              THEN CircuitBreakerState(HALF_OPEN_TESTING,
                                                       obs.circuit_opened_at)
                              ELSE circuit
                /\ permits' = IF cas THEN permits + 1 ELSE permits
           ELSE /\ ar' = [ar EXCEPT ![c].pc = "done", ![c].result = (obs.state = CLOSED)]
                /\ UNCHANGED <<circuit, permits>>
    /\ ConfigurationUnchanged
    /\ UNCHANGED <<clock, buckets, cumulative, events, propagated, reporting,
                   health_counts_snapshot, last_health_counts_snapshot, pc, last_time,
                   current_time, won, sums, result, claim_log>>

\* the breaker's mark_success(): the trial succeeded
circuit_mark_success ==
    /\ circuit.state = HALF_OPEN_TESTING
    /\ circuit' = CircuitBreakerState(CLOSED, 0)
    /\ ConfigurationUnchanged
    /\ UNCHANGED <<clock, buckets, cumulative, events, propagated, reporting,
                   health_counts_snapshot, last_health_counts_snapshot, pc, last_time,
                   current_time, won, sums, result, claim_log, ar, permits>>

\* the breaker's mark_failure(): the trial failed or timed out
circuit_mark_failure ==
    /\ circuit.state = HALF_OPEN_TESTING
    /\ circuit' = CircuitBreakerState(OPEN, clock)
    /\ permits' = 0
    /\ ConfigurationUnchanged
    /\ UNCHANGED <<clock, buckets, cumulative, events, propagated, reporting,
                   health_counts_snapshot, last_health_counts_snapshot, pc, last_time,
                   current_time, won, sums, result, claim_log, ar>>

AllowRequestRead == \E c \in Callers : allow_request_read(c)
AllowRequestHealthCounts == \E c \in Callers : allow_request_health_counts(c)
AllowRequestHealth == \E c \in Callers : allow_request_health(c)
AllowRequestDecide == \E c \in Callers : allow_request_decide(c)

(***************************************************************************)
(* SpecBreaker: at most MaxRequests allow_request() calls, in every        *)
(* interleaving with each other, with the trial's resolution and with the  *)
(* clock, for each configuration of BreakerSetters.  The health_counts()   *)
(* call an allow_request() makes runs line by line, so the calls of two    *)
(* threads overlap and the clock acts between any two of its lines.  Each  *)
(* initial state is a state of the program in which up to MaxMarks         *)
(* mark_failure calls have been made and have returned at time 0, before   *)
(* the first request; no outcome is reported afterwards.                   *)
(***************************************************************************)
\* the Setter values the breaker is configured with
VolumeThresholds == {Val(2)}
ErrorThresholds == {None}
SleepWindows == {Val(1)}
Flags == {None, Val(TRUE)}

BreakerSetters ==
    {SetterWith(SetterWith(SetterWith(SetterWith(SetterWith(BoundsSetter,
        "circuit_breaker_request_volume_threshold", v),
        "circuit_breaker_error_threshold_percentage", e),
        "circuit_breaker_sleep_window_in_milliseconds", w),
        "circuit_breaker_force_open", fo),
        "circuit_breaker_force_closed", fc) :
       v \in VolumeThresholds, e \in ErrorThresholds, w \in SleepWindows,
       fo \in Flags, fc \in Flags}

InitBreaker ==
    /\ properties \in {CommandProperties("Command", s, None) : s \in BreakerSetters}
    /\ clock = 0
    /\ \E failure \in 0..MaxMarks :
          /\ buckets = IF failure = 0 THEN <<>>
                       ELSE <<[start |-> 0, cnt |-> CountsOf(0, failure)]>>
          /\ cumulative = CountsOf(0, failure)
          /\ events = [k \in MarkKinds |-> CountsOf(0, failure)[k]]
    /\ propagated = [k \in MarkKinds |-> 0]
    /\ reporting = [r \in Reporters |-> NoReport]
    /\ health_counts_snapshot = None
    /\ last_health_counts_snapshot = 0
    /\ pc = [t \in Callers |-> "idle"]
    /\ last_time = [t \in Callers |-> 0]
    /\ current_time = [t \in Callers |-> 0]
    /\ won = [t \in Callers |-> FALSE]
    /\ sums = [t \in Callers |-> [k \in HealthKindSet |-> 0]]
    /\ result = [t \in Callers |-> None]
    /\ claim_log = <<>>
    /\ InitCircuitBreaker
    /\ InitHistory
    /\ InitConfiguration

\* an allow_request() call starts
RequestRecorded ==
    /\ history.requests < MaxRequests
    /\ history' = [history EXCEPT !.requests = @ + 1]

NextBreaker ==
    \/ Tick /\ HistoryUnchanged
    \/ AllowRequestRead /\ RequestRecorded
    \/ AllowRequestHealthCounts /\ HistoryUnchanged
    \/ HcCurrentTime /\ HistoryUnchanged
    \/ HcTest /\ HistoryUnchanged
    \/ HcCompareAndSet /\ HistoryUnchanged
    \/ HcRollingSum /\ HistoryUnchanged
    \/ HcPublish /\ HistoryUnchanged
    \/ HcReturn /\ HistoryUnchanged
    \/ AllowRequestHealth /\ HistoryUnchanged
    \/ AllowRequestDecide /\ HistoryUnchanged
    \/ circuit_mark_success /\ HistoryUnchanged
    \/ circuit_mark_failure /\ HistoryUnchanged

SpecBreaker == InitBreaker /\ [][NextBreaker]_vars

(***************************************************************************)
(* Vocabulary of the breaker's properties: the configured values, as the   *)
(* CommandProperties object holds them.                                    *)
(***************************************************************************)
ForceOpenSet == properties.circuit_breaker_force_open.value
ForceClosedSet == properties.circuit_breaker_force_closed.value
RequestVolumeThreshold == properties.circuit_breaker_request_volume_threshold.value
ErrorThresholdPercentage == properties.circuit_breaker_error_threshold_percentage.value
SleepWindowMs == properties.circuit_breaker_sleep_window_in_milliseconds.value

\* caller c's allow_request() call returns in this step
Decides(c) == ar[c].pc = "decide" /\ ar'[c].pc = "done"

\* caller c's last allow_request() call has returned
Decided(c) == ar[c].pc = "done"

\* the health snapshot meets both thresholds
ThresholdsMet(health) ==
    /\ health.total_count >= RequestVolumeThreshold
    /\ health.error_percentage >= ErrorThresholdPercentage

(***************************************************************************)
(* C11: with neither force flag set, an allow_request() call on a CLOSED   *)
(* breaker decides on a health snapshot: it trips the breaker to OPEN,     *)
(* recording circuit_opened_at = now and returning false, if and only if   *)
(* the health it read has total_requests >= the request volume threshold   *)
(* and error_percentage >= the error threshold percentage; otherwise the   *)
(* breaker stays CLOSED and the call returns true, and nothing else moves  *)
(* a CLOSED breaker to OPEN.                                               *)
(***************************************************************************)
\* caller c's allow_request() call ends in this step, by a return or not
Ends(c) == ar[c].pc = "decide" /\ ar'[c].pc # "decide"

SleepElapsed(a) ==
    /\ a.observed.state = OPEN
    /\ a.now - a.observed.circuit_opened_at >= SleepWindowMs

C12_SingleTrialPermit ==
    [][/\ permits' <= 1
       /\ circuit'.state = HALF_OPEN_TESTING => permits' = 1
       /\ \A c \in Callers :
             Decides(c)
             => /\ (ar[c].observed.state = OPEN /\ ~SleepElapsed(ar[c]))
                   => ar'[c].result = FALSE
                /\ ar[c].observed.state = HALF_OPEN_TESTING => ar'[c].result = FALSE
                /\ (SleepElapsed(ar[c]) /\ ~ForceOpenSet)
                   => /\ ar'[c].result = (circuit = ar[c].observed)
                      /\ ar'[c].result
                         => /\ circuit'.state = HALF_OPEN_TESTING
                            /\ permits = 0]_vars

\* C12 witness: two callers observed the same OPEN state with the sleep window
\* elapsed; one won the transition and received true, the other received false,
\* and the trial is not resolved yet
C12_Witness ==
    \E c, d \in Callers :
        /\ c # d
        /\ Decided(c) /\ Decided(d)
        /\ SleepElapsed(ar[c])
        /\ ar[c].observed = ar[d].observed
        /\ ar[c].result = TRUE
        /\ ar[d].result = FALSE
        /\ circuit.state = HALF_OPEN_TESTING
        /\ permits = 1

(***************************************************************************)
(* C13: trial resolution.  From HALF_OPEN_TESTING, mark_success moves the  *)
(* breaker to CLOSED, after which allow_request() returns true for all     *)
(* callers; mark_failure moves it back to OPEN with circuit_opened_at set  *)
(* to the current time, so that no request is allowed until a full new     *)
(* sleep window has elapsed; and the state only ever changes along         *)
(* CLOSED->OPEN, OPEN->HALF_OPEN_TESTING, HALF_OPEN_TESTING->CLOSED and    *)
(* HALF_OPEN_TESTING->OPEN.                                                *)
(***************************************************************************)
Transitions ==
    {<<CLOSED, OPEN>>, <<OPEN, HALF_OPEN_TESTING>>, <<HALF_OPEN_TESTING, CLOSED>>,
     <<HALF_OPEN_TESTING, OPEN>>}

C13_TrialResolution ==
    [][/\ (circuit.state = HALF_OPEN_TESTING /\ circuit_mark_success)
          => circuit'.state = CLOSED
       /\ (circuit.state = HALF_OPEN_TESTING /\ circuit_mark_failure)
          => circuit' = CircuitBreakerState(OPEN, clock)
       /\ circuit'.state # circuit.state
          => <<circuit.state, circuit'.state>> \in Transitions
       /\ \A c \in Callers :
             Decides(c)
             => /\ (ar[c].observed.state = OPEN /\ ~SleepElapsed(ar[c]))
                   => ar'[c].result = FALSE
                /\ (ar[c].after_trial /\ ~ForceOpenSet) => ar'[c].result = TRUE]_vars

(***************************************************************************)
(* C14: force flags.  With circuit_breaker_force_open set, every           *)
(* allow_request() call returns false, in every state and whatever the     *)
(* health, also when force_closed is set too; with force_closed set and    *)
(* force_open not set, every call returns true whatever the health, and    *)
(* the breaker never leaves CLOSED.                                        *)
(***************************************************************************)
C14_ForceFlags ==
    [][/\ \A c \in Callers :
             Decides(c)
             => /\ ForceOpenSet => ar'[c].result = FALSE
                /\ (ForceClosedSet /\ ~ForceOpenSet) => ar'[c].result = TRUE
       /\ (ForceClosedSet /\ ~ForceOpenSet) => circuit'.state = CLOSED]_vars

\* C14 witness: with force_closed set and force_open not set, a call made while
\* the window holds failures that meet both thresholds has returned true
C14_Witness ==
    \E c \in Callers :
        /\ Decided(c)
        /\ ForceClosedSet /\ ~ForceOpenSet
        /\ ar[c].result = TRUE
        /\ ar[c].now = clock
        /\ ThresholdsMet(Snapshot(AllSums(buckets, clock)))
        /\ circuit.state = CLOSED

(***************************************************************************)
(* SpecWindow: one CommandMetrics whose window duration and bucket count   *)
(* are chosen at construction; one thread makes at most MaxMarks outcome   *)
(* reports of any kind (the four mark_* methods, the rejections and the    *)
(* short circuit) and one thread makes at most MaxCalls health_counts()    *)
(* calls, every statement of every call interleaved with every other and   *)
(* with the clock.  The history records every increment made.              *)
(***************************************************************************)

\* the caller whose snapshot the step publishes (line 164)
Publishes(t) == pc[t] = "l164" /\ pc'[t] = "l166"

\* the threads whose counter.increment(kind) call added in the step (none or one)
Added == {r \in Reporters : reporting[r].pc = "add" /\ reporting'[r].pc = "idle"}

\* the increments of the step, each with the bucket it went to
IncrementsLogged ==
    IF Added = {} THEN history.increments
    ELSE LET r == CHOOSE r \in Added : TRUE
         IN  Append(history.increments,
                    [kind |-> reporting[r].kind, start |-> reporting[r].start,
                     time |-> clock'])

\* a step that adds to the rolling window
OutcomeRecorded == history' = [history EXCEPT !.increments = IncrementsLogged]

\* a health_counts() call starts
HealthCallRecorded ==
    /\ CallsBounded
    /\ history' = [history EXCEPT !.health_calls = @ + 1]

\* the window durations and bucket counts given to the Setter
WindowShapes == {<<1, 1>>, <<2, 2>>}

WindowSetters ==
    {SetterWith(SetterWith(SetterWith(Setter,
        "metrics_rolling_statistical_window_in_milliseconds", Val(w[1])),
        "metrics_rolling_statistical_window_buckets", Val(w[2])),
        "metrics_health_snapshot_interval_in_milliseconds", Val(SnapshotInterval)) :
       w \in WindowShapes}

InitWindow ==
    /\ properties \in {CommandProperties("Command", s, None) : s \in WindowSetters}
    /\ clock = 0
    /\ buckets = <<>>
    /\ cumulative = ZeroCounts
    /\ events = [k \in MarkKinds |-> 0]
    /\ propagated = [k \in MarkKinds |-> 0]
    /\ reporting = [r \in Reporters |-> NoReport]
    /\ health_counts_snapshot = None
    /\ last_health_counts_snapshot = 0
    /\ pc = [t \in Callers |-> "idle"]
    /\ last_time = [t \in Callers |-> 0]
    /\ current_time = [t \in Callers |-> 0]
    /\ won = [t \in Callers |-> FALSE]
    /\ sums = [t \in Callers |-> [k \in HealthKindSet |-> 0]]
    /\ result = [t \in Callers |-> None]
    /\ claim_log = <<>>
    /\ InitCircuitBreaker
    /\ InitHistory
    /\ InitConfiguration

NextWindow ==
    \/ Tick /\ HistoryUnchanged
    \/ MarkSuccess({Reporter}) /\ HistoryUnchanged
    \/ MarkSuccessIncrement({Reporter}) /\ HistoryUnchanged
    \/ MarkFailure({Reporter}) /\ HistoryUnchanged
    \/ MarkFailureIncrement({Reporter}) /\ HistoryUnchanged
    \/ MarkTimeout({Reporter}) /\ HistoryUnchanged
    \/ MarkTimeoutIncrement({Reporter}) /\ HistoryUnchanged
    \/ MarkBadRequest({Reporter}) /\ HistoryUnchanged
    \/ MarkBadRequestIncrement({Reporter}) /\ HistoryUnchanged
    \/ ReportRejection({Reporter}) /\ HistoryUnchanged
    \/ IncrementAdd({Reporter}) /\ OutcomeRecorded
    \/ hc_get_last(Caller) /\ HealthCallRecorded
    \/ hc_current_time(Caller) /\ HistoryUnchanged
    \/ hc_test(Caller) /\ HistoryUnchanged
    \/ hc_compare_and_set(Caller) /\ HistoryUnchanged
    \/ hc_rolling_sum(Caller) /\ HistoryUnchanged
    \/ hc_publish(Caller) /\ HistoryUnchanged
    \/ hc_return(Caller) /\ HistoryUnchanged

SpecWindow == InitWindow /\ [][NextWindow]_vars

\* the configured window, as the properties object holds it
WindowDurationMs == properties.metrics_rolling_statistical_window_in_milliseconds.value
WindowBuckets == properties.metrics_rolling_statistical_window_buckets.value

\* the logged increments of `kind` whose bucket the window still holds at `now`
Unexpired(log, kind, now) ==
    {i \in DOMAIN log :
        /\ log[i].kind = kind
        /\ (now - log[i].start) \div (WindowDurationMs \div WindowBuckets) < WindowBuckets}

(***************************************************************************)
(* C15  Expired outcomes never count.  After every step, the rolling sum   *)
(* of each kind is the number of increments of that kind whose bucket is   *)
(* still held; every increment counted went to a bucket whose start lies   *)
(* within the last window duration; an increment made more than a window   *)
(* duration ago counts for nothing; a window with no such increment reads  *)
(* 0 (so nothing reappears after a reset); every sum a refresh reads       *)
(* (lines 151-156) is the number of unexpired increments of its kind at    *)
(* the instant of the read, and the snapshot it publishes totals the sums  *)
(* it read.                                                                *)
(***************************************************************************)
C15_ExpiredOutcomesNeverCount ==
    [][LET log == history'.increments
           now == clock'
       IN  /\ \A k \in Kinds :
                /\ rolling_sum(buckets', k, now) = Cardinality(Unexpired(log, k, now))
                /\ \A i \in Unexpired(log, k, now) :
                      /\ log[i].start >= now - WindowDurationMs
                      /\ now - log[i].time <= WindowDurationMs
                /\ (\A i \in DOMAIN log : log[i].kind = k =>
                        now - log[i].time > WindowDurationMs)
                   => rolling_sum(buckets', k, now) = 0
           /\ (pc[Caller] \in SumLines /\ pc'[Caller] # pc[Caller])
              => LET kind == HealthKinds[SumIndex(pc[Caller])]
                 IN  sums'[Caller][kind] = Cardinality(Unexpired(log, kind, now))
           /\ Publishes(Caller)
              => health_counts_snapshot'.total_count
                   = SumSeq([i \in 1..6 |-> sums[Caller][HealthKinds[i]]])
      ]_vars

\* an increment has expired and a later one counts: the sum shows the later only,
\* and the snapshot refreshed since shows it too
C15_Witness ==
    \E k \in HealthKindSet :
        /\ Cardinality({i \in DOMAIN history.increments :
                            history.increments[i].kind = k}) = 2
        /\ Cardinality(Unexpired(history.increments, k, clock)) = 1
        /\ rolling_sum(buckets, k, clock) = 1
        /\ health_counts_snapshot # None
        /\ health_counts_snapshot.total_count = 1
        /\ \E i \in DOMAIN history.increments :
              clock - history.increments[i].time > WindowDurationMs

(***************************************************************************)
(* Building a configuration: Setter.with_* calls on Setter objects, then   *)
(* CommandProperties(command_key, setter, property_prefix) and             *)
(* CommandMetrics(properties=...) from one of them.                        *)
(***************************************************************************)

\* the variables of one CommandMetrics and of its breaker
MetricsUnchanged ==
    UNCHANGED <<clock, buckets, cumulative, events, propagated, reporting,
                health_counts_snapshot, last_health_counts_snapshot, pc, last_time,
                current_time, won, sums, result, claim_log, circuit, ar, permits>>

\* the getter of a setting, lines 267-510: each returns the field __init__ stored
Get(props, field) == props[field].value

\* RollingNumber's construction fails with ConfigError
RollingNumberConfigError(args) ==
    \/ args.milliseconds <= 0
    \/ args.bucket_numbers <= 0
    \/ args.milliseconds % args.bucket_numbers # 0

\* Setter.with_<field>(value) called on the Setter `self`, lines 627-709:
\* self._<field> = value; return self
with_(self, field, value) ==
    /\ built = None
    /\ Len(history.calls) < MaxWithCalls
    /\ setters' = [setters EXCEPT ![self] = SetterWith(@, field, value)]
    /\ returned' = [self |-> self, result |-> self]
    /\ UNCHANGED <<python, properties, built, __instances__, classes, defining>>
    /\ MetricsUnchanged

\* CommandProperties(command_key, setter, property_prefix), lines 81-257, then
\* CommandMetrics(properties=...), lines 58-69: neither checks a value; the
\* RollingNumber that line 60 constructs checks its two arguments
Construct(self, command_key, property_prefix) ==
    /\ built = None
    /\ properties' = CommandProperties(command_key, setters[self], property_prefix)
    /\ built' = [setter |-> self,
                 status |-> IF RollingNumberConfigError(RollingNumberArgs')
                            THEN "ConfigError" ELSE "constructed"]
    /\ UNCHANGED <<python, setters, returned, __instances__, classes, defining>>
    /\ MetricsUnchanged

\* the values given to the with_* method of a setting
SetterValues(field) ==
    {None} \cup (IF field \in BoolFields THEN {Val(FALSE), Val(TRUE)}
                 ELSE {Val(0), Val(150)})

CommandKeys == {"Command", "Other"}
PropertyPrefixes == {None, Val("hystrix")}

CallRecorded(self, field, value) ==
    history' = [history EXCEPT !.calls =
                   Append(@, [self |-> self, field |-> field, value |-> value])]

NextProps ==
    \/ \E o \in SetterIds, f \in Fields :
          \E v \in SetterValues(f) : with_(o, f, v) /\ CallRecorded(o, f, v)
    \/ \E o \in SetterIds, k \in CommandKeys, p \in PropertyPrefixes :
          Construct(o, k, p) /\ HistoryUnchanged

SpecProps == Init /\ [][NextProps]_vars

\* the settings of the constructed configuration, as the getters return them
WindowMsBuilt == Get(properties, "metrics_rolling_statistical_window_in_milliseconds")
WindowBucketsBuilt == Get(properties, "metrics_rolling_statistical_window_buckets")
ErrorThresholdBuilt == Get(properties, "circuit_breaker_error_threshold_percentage")

(***************************************************************************)
(* C16  Invalid configuration is rejected at construction: whenever the    *)
(* configuration and the metrics have been constructed without error, the  *)
(* window duration and the bucket count are positive, the bucket count     *)
(* divides the window duration and the error threshold percentage lies in  *)
(* 0..100.                                                                 *)
(***************************************************************************)
C16_InvalidConfigurationRejected ==
    (built # None /\ built.status = "constructed")
    => /\ WindowMsBuilt > 0
       /\ WindowBucketsBuilt > 0
       /\ WindowMsBuilt % WindowBucketsBuilt = 0
       /\ ErrorThresholdBuilt \in 0..100

\* the value last given to with_<field> on the Setter o (None: none given)
LastGiven(calls, o, field) ==
    LET made == {i \in DOMAIN calls : calls[i].self = o /\ calls[i].field = field}
    IN  IF made = {} THEN None
        ELSE calls[CHOOSE i \in made : \A j \in made : j <= i].value

(***************************************************************************)
(* C18  Property precedence.  When a configuration is constructed from a   *)
(* Setter, with any command key and property prefix, the getter of each of *)
(* the 21 settings returns the value last given to the Setter's matching   *)
(* with_* method if that value is not None (False and 0 included), else    *)
(* the class default; and every with_* call stores its value in its own    *)
(* field, leaves every other field of every Setter as it was and returns   *)
(* the Setter it was called on.                                            *)
(***************************************************************************)
C18_PropertyPrecedence ==
    [][/\ (built = None /\ built' # None)
          => \A f \in Fields :
                LET given == LastGiven(history.calls, built'.setter, f)
                IN  Get(properties', f)
                       = (IF given # None THEN given.value ELSE Defaults[f].value)
       /\ Len(history'.calls) > Len(history.calls)
          => LET c == history'.calls[Len(history'.calls)]
             IN  /\ setters'[c.self][c.field] = c.value
                 /\ \A o \in SetterIds, f \in Fields :
                       (o # c.self \/ f # c.field) => setters'[o][f] = setters[o][f]
                 /\ returned' = [self |-> c.self, result |-> c.self]
      ]_vars

\* a configuration constructed from a Setter that was given False for a setting
\* whose default is True and 0 for one whose default is not 0, while the other
\* Setter stayed empty: the getters return False and 0
C18_Witness ==
    /\ built # None
    /\ \E f \in BoolFields, g \in IntFields :
          /\ Defaults[f] = Val(TRUE) /\ Defaults[g] # Val(0)
          /\ LastGiven(history.calls, built.setter, f) = Val(FALSE)
          /\ LastGiven(history.calls, built.setter, g) = Val(0)
          /\ Get(properties, f) = FALSE
          /\ Get(properties, g) = 0
    /\ \E o \in SetterIds : o # built.setter /\ setters[o] = Setter

(***************************************************************************)
(* CommandMetricsMetaclass, lines 16-49: every definition of a class whose *)
(* metaclass it is runs __new__(cls, name, bases, attrs).  No line of it   *)
(* takes a lock, so a thread that defines a class runs it one access to    *)
(* the registry per step, and the definitions of two threads interleave.   *)
(* A definition made by a __set_name__ hook of a class body runs inside    *)
(* type.__new__ (line 42) of the definition of that class: it is the       *)
(* interleaving in which the second definition runs whole while the first  *)
(* is at line 42.  A class object is its index in `classes`; attr is       *)
(* attrs.get('command_metrics_key').                                       *)
(***************************************************************************)

\* line 27
__blacklist__ == {"CommandMetrics", "CommandMetricsMetaclass"}

\* lines 36-37: attrs.get('command_metrics_key') or '{}CommandMetrics'.format(name)
command_metrics_key(name, attr) ==
    IF attr # None /\ attr # Val("") THEN attr.value ELSE name \o "CommandMetrics"

\* what a definition leaves untouched
DefinitionFrame ==
    /\ UNCHANGED <<python, properties, setters, built>>
    /\ MetricsUnchanged

\* lines 29-38: the call starts.  A blacklisted name gets a new class that is
\* not cached and is returned at once (lines 32-34); any other name gets its key.
__new__(t, name, attr) ==
    /\ defining[t].pc = "idle"
    /\ IF name \in __blacklist__
       THEN /\ classes' = Append(classes, [name |-> name, command_metrics_key |-> attr])
            /\ returned' = [name |-> name, attr |-> attr, class |-> Len(classes')]
            /\ UNCHANGED defining
       ELSE /\ defining' = [defining EXCEPT ![t] =
                              [pc |-> "l41", name |-> name, attr |-> attr,
                               command_metrics_key |-> command_metrics_key(name, attr),
                               new_class |-> 0]]
            /\ UNCHANGED <<classes, returned>>
    /\ UNCHANGED __instances__
    /\ DefinitionFrame

\* line 41: is the key in the registry
new_test(t) ==
    /\ defining[t].pc = "l41"
    /\ defining' = [defining EXCEPT ![t].pc =
                      IF defining[t].command_metrics_key \notin DOMAIN __instances__
                      THEN "l42" ELSE "l49"]
    /\ UNCHANGED <<returned, __instances__, classes>>
    /\ DefinitionFrame

\* lines 42-46: type.__new__ makes the class, named by the key, and setattr
\* gives it the key
new_type_new(t) ==
    /\ defining[t].pc = "l42"
    /\ classes' = Append(classes, [name |-> defining[t].command_metrics_key,
                                   command_metrics_key |->
                                       Val(defining[t].command_metrics_key)])
    /\ defining' = [defining EXCEPT ![t].new_class = Len(classes'), ![t].pc = "l47"]
    /\ UNCHANGED <<returned, __instances__>>
    /\ DefinitionFrame

\* line 47: the class is stored under the key
new_store(t) ==
    /\ defining[t].pc = "l47"
    /\ __instances__' =
          [k \in DOMAIN __instances__ \cup {defining[t].command_metrics_key} |->
             IF k = defining[t].command_metrics_key THEN defining[t].new_class
             ELSE __instances__[k]]
    /\ defining' = [defining EXCEPT ![t].pc = "l49"]
    /\ UNCHANGED <<returned, classes>>
    /\ DefinitionFrame

\* line 49: the call returns the class the registry holds under the key
new_return(t) ==
    /\ defining[t].pc = "l49"
    /\ returned' = [name |-> defining[t].name, attr |-> defining[t].attr,
                    class |-> __instances__[defining[t].command_metrics_key]]
    /\ defining' = [defining EXCEPT ![t] = NoDefinition]
    /\ UNCHANGED <<__instances__, classes>>
    /\ DefinitionFrame

\* the class names and the command_metrics_key attributes of the definitions made
ClassNames == {"A", "B", "CommandMetrics"}
KeyAttributes == {None, Val(""), Val("K"), Val("ACommandMetrics")}

\* at most MaxDefinitions definitions, those in progress included
DefinitionsBounded ==
    Len(history.definitions) + Cardinality({t \in Callers : defining[t].pc # "idle"})
        < MaxDefinitions

\* the definition that returns in the step
DefinitionRecorded == history' = [history EXCEPT !.definitions = Append(@, returned')]

NextRegistry ==
    \/ \E t \in Callers, name \in ClassNames, attr \in KeyAttributes :
          /\ DefinitionsBounded
          /\ __new__(t, name, attr)
          /\ IF name \in __blacklist__ THEN DefinitionRecorded ELSE HistoryUnchanged
    \/ \E t \in Callers : new_test(t) /\ HistoryUnchanged
    \/ \E t \in Callers : new_type_new(t) /\ HistoryUnchanged
    \/ \E t \in Callers : new_store(t) /\ HistoryUnchanged
    \/ \E t \in Callers : new_return(t) /\ DefinitionRecorded

SpecRegistry == Init /\ [][NextRegistry]_vars

\* the key of a definition: the key given, an absent, None or empty key being
\* the default '<name>CommandMetrics'
EffectiveKey(d) ==
    IF d.attr \in {None, Val("")} THEN d.name \o "CommandMetrics" ELSE d.attr.value

\* no entry of the registry is replaced or removed by the step
RegistryKept ==
    \A k \in DOMAIN __instances__ :
        k \in DOMAIN __instances__' /\ __instances__'[k] = __instances__[k]

(***************************************************************************)
(* C17  The registry holds exactly one entry per command metrics key.  Of  *)
(* the definitions made so far whose class name the metaclass caches (any  *)
(* name but CommandMetrics and CommandMetricsMetaclass), two yielded the   *)
(* identical object exactly when their keys are equal; the registry holds  *)
(* under the key of each the object it yielded; and no step replaces or    *)
(* removes an entry of the registry, so the first definition of a key      *)
(* wins.                                                                   *)
(***************************************************************************)
C17_OneEntryPerKey ==
    [][LET defs   == history'.definitions
           cached == {i \in DOMAIN defs : defs[i].name \notin __blacklist__}
       IN  /\ \A i, j \in cached :
                (EffectiveKey(defs[i]) = EffectiveKey(defs[j]))
                    <=> (defs[i].class = defs[j].class)
           /\ \A i \in cached :
                /\ EffectiveKey(defs[i]) \in DOMAIN __instances__'
                /\ __instances__'[EffectiveKey(defs[i])] = defs[i].class
           /\ RegistryKept
      ]_vars

(***************************************************************************)
(* The callers of health_counts() with the publications recorded: the      *)
(* steps of SpecCallers, the history keeping the latest marker time whose  *)
(* snapshot has been published.                                            *)
(***************************************************************************)

PublicationRecorded ==
    history' = [history EXCEPT !.published =
                   LET t == CHOOSE t \in Callers : Publishes(t)
                   IN  IF current_time[t] > @ THEN current_time[t] ELSE @]

NextPublish ==
    \/ Tick /\ HistoryUnchanged
    \/ HcGetLast /\ HistoryUnchanged
    \/ HcCurrentTime /\ HistoryUnchanged
    \/ HcTest /\ HistoryUnchanged
    \/ HcCompareAndSet /\ HistoryUnchanged
    \/ HcRollingSum /\ HistoryUnchanged
    \/ HcPublish /\ PublicationRecorded
    \/ HcReturn /\ HistoryUnchanged

SpecPublish == Init /\ [][NextPublish]_vars

(***************************************************************************)
(* C19  Snapshots are published in claim order: a step that replaces the   *)
(* cached snapshot publishes the snapshot of a refresh whose claimed       *)
(* marker time is not earlier than that of any refresh whose snapshot was  *)
(* published before.                                                       *)
(***************************************************************************)
C19_PublishedInClaimOrder ==
    [][\A t \in Callers : Publishes(t) => current_time[t] >= history.published]_vars

\* a HealthCounts within its ranges
InRange(h) ==
    /\ 0 <= h.error_count /\ h.error_count <= h.total_count
    /\ 0 <= h.error_percentage /\ h.error_percentage <= 100
    /\ h.error_percentage = 100 <=> (h.error_count = h.total_count /\ h.total_count > 0)
    /\ h.error_count = 0 => h.error_percentage = 0

(***************************************************************************)
(* C21  Every HealthCounts that health_counts() has returned, and the one  *)
(* it has cached, has 0 <= error_count <= total_requests and               *)
(* 0 <= error_percentage <= 100, with error_percentage = 100 exactly when  *)
(* error_count = total_requests > 0, and error_percentage = 0 whenever     *)
(* error_count = 0.                                                        *)
(***************************************************************************)
C21_HealthCountsInRange ==
    /\ \A t \in Callers : result[t] # None => InRange(result[t])
    /\ health_counts_snapshot # None => InRange(health_counts_snapshot)

\* a call has returned a snapshot of three requests or more with errors among
\* successes, its percentage strictly between 0 and 100
C21_Witness ==
    /\ result[1] # None
    /\ result[1].total_count >= 3
    /\ result[1].error_count >= 1
    /\ result[1].error_count < result[1].total_count
    /\ result[1].error_percentage > 0
    /\ result[1].error_percentage < 100

====
